---- MODULE Spec2Model ----
(***************************************************************************)
(* Model of the complex alignment assembly tools of tar_pmhc (src/main.py) *)
(*                                                                         *)
(*   SpecAut    the alignment-validity automaton (mhc_filter_main)         *)
(*   SpecMask   the gap masking of a selected hit row (align_complex)      *)
(*   SpecLoad   the index store (read_*_idx, align_complex_main) and the   *)
(*              identifier resolution of read_a3m                          *)
(*   Spec       the parallel driver, align_complex and align_a3m           *)
(*                                                                         *)
(* Text is a tuple of one-character strings; a Python dict is a function   *)
(* whose DOMAIN is its key set, or a tuple of <<key, value>> pairs where   *)
(* the code depends on the insertion order.                                *)
(***************************************************************************)
EXTENDS Integers, Sequences, FiniteSets, TLC

VARIABLES
  \* mhc_filter_main._is_aligned
  target, seq, i, j, state, ret,
  \* gap masking of one row
  mrow, mout, mpc,
  \* index store
  db_mapping_idx, db_chain_idx, db_attr_idx, db_mapping_dict,
  target_mapping_idx, lpc, loc_n, any_file, read_kind, read_file,
  read_prev, res_id, res_out,
  \* driver and align_complex
  dpc, task, written, pending, pc, a3m_list, align_data_dict, a3m_dict,
  new_a3m_dict, new_a3m_list

autVars == <<target, seq, i, j, state, ret>>
maskVars == <<mrow, mout, mpc>>
idxVars == <<db_mapping_idx, db_chain_idx, db_attr_idx, db_mapping_dict>>
loadVars == <<target_mapping_idx, lpc, loc_n, any_file, read_kind, read_file,
              read_prev, res_id, res_out>>
taskVars == <<pc, a3m_list, align_data_dict, a3m_dict, new_a3m_dict,
              new_a3m_list>>
drvVars == <<dpc, task, written, pending>>
vars == <<autVars, maskVars, idxVars, loadVars, taskVars, drvVars>>

----------------------------------------------------------------------------
(* Bounds                                                                  *)

MaxRefLen == 2
MaxCandLen == 3
MaxRowLen == 4
MaxLines == 2
MaxLocs == 2
MaxRows == 2

----------------------------------------------------------------------------
(* Helpers: Python dict and str primitives                                 *)

EmptyDict == << >>

\* dict.get(k, default)
Get(d, k, default) == IF k \in DOMAIN d THEN d[k] ELSE default

\* an assignment that keeps the value of a key already present
PutIfAbsent(d, k, v) ==
  [x \in (DOMAIN d) \cup {k} |-> IF x \in DOMAIN d THEN d[x] ELSE v]

\* d[k] = v
Put(d, k, v) == [x \in (DOMAIN d) \cup {k} |-> IF x = k THEN v ELSE d[x]]

\* the texts over alphabet S of length at most n
TextsUpTo(S, n) == UNION {[1..m -> S] : m \in 0..n}

\* a placeholder one character too long
StarsOneMore(n) == [k \in 1..(n + 1) |-> "*"]

\* "*" * n
Stars(n) == [k \in 1..n |-> "*"]

\* str.islower() of one character
Lower == {"a", "b"}
islower(c) == c \in Lower

----------------------------------------------------------------------------
(* The idle values of the machines a specification does not run            *)

AutIdle ==
  /\ target = << >> /\ seq = << >> /\ i = 0 /\ j = 0 /\ state = 0
  /\ ret = "idle"

MaskIdle == mrow = << >> /\ mout = << >> /\ mpc = "idle"

IdxIdle ==
  /\ db_mapping_idx = EmptyDict /\ db_chain_idx = EmptyDict
  /\ db_attr_idx = EmptyDict /\ db_mapping_dict = EmptyDict

LoadIdle ==
  /\ target_mapping_idx = EmptyDict /\ lpc = "idle" /\ loc_n = 0
  /\ any_file = FALSE
  /\ read_kind = "none" /\ read_file = << >> /\ read_prev = EmptyDict
  /\ res_id = << >> /\ res_out = << >>

TaskIdle ==
  /\ pc = "idle" /\ a3m_list = << >> /\ align_data_dict = EmptyDict
  /\ a3m_dict = << >> /\ new_a3m_dict = << >> /\ new_a3m_list = << >>

DrvIdle == dpc = "idle" /\ task = 0 /\ written = << >> /\ pending = << >>

----------------------------------------------------------------------------
(* Alignment validity automaton: mhc_filter_main._is_aligned               *)

RefAlphabet == {"A", "B"}
CandAlphabet == {"A", "B", "-", "a"}

ABCDE == <<"A", "B", "C", "D", "E">>

\* the named candidates for the reference ABCDE
NamedCands ==
  { <<"-", "-", "B", "C", "D", "-", "-">>,
    <<"A", "-", "C", "-", "E">>,
    <<"-", "B", "C", "D", "-">>,
    <<"A", "B", "C", "D", "E", "a">>,
    <<"A", "B", "C">>,
    << >> }

AutInputs ==
  (TextsUpTo(RefAlphabet, MaxRefLen) \X TextsUpTo(CandAlphabet, MaxCandLen))
    \cup ({ABCDE} \X NamedCands)

\* while i < len(target) and j < len(seq)
LoopCond(t, s, ii, jj) == ii < Len(t) /\ jj < Len(s)

\* if seq[j].islower(): return False
RejectsLower(c) == islower(c)

\* the loop body with a gap in state 1 left in state 1
BodyGapStaysInCore(st, tc, sc) ==
  IF RejectsLower(sc) THEN -1
  ELSE IF st = 0 THEN
         IF sc = "-" THEN 0
         ELSE IF tc = sc THEN 1
         ELSE -1
  ELSE IF st = 1 THEN
         IF sc = "-" THEN 1
         ELSE IF tc = sc THEN 1
         ELSE -1
  ELSE IF sc # "-" THEN -1 ELSE 2

\* one pass of the loop body on reference character tc and candidate
\* character sc in state st: -1 for "return False", or the next state
Body(st, tc, sc) ==
  IF RejectsLower(sc) THEN -1
  ELSE IF st = 0 THEN
         IF sc = "-" THEN 0
         ELSE IF tc = sc THEN 1
         ELSE -1
  ELSE IF st = 1 THEN
         IF sc = "-" THEN 2
         ELSE IF tc = sc THEN 1
         ELSE -1
  ELSE IF sc # "-" THEN -1 ELSE 2

InitAut ==
  /\ \E in \in AutInputs : target = in[1] /\ seq = in[2]
  /\ i = 0 /\ j = 0 /\ state = 0 /\ ret = "running"
  /\ MaskIdle /\ IdxIdle /\ LoadIdle /\ TaskIdle /\ DrvIdle

AutFrame == UNCHANGED <<maskVars, idxVars, loadVars, taskVars, drvVars>>

\* a pass of the loop that returns False
AutReject ==
  /\ ret = "running"
  /\ LoopCond(target, seq, i, j)
  /\ Body(state, target[i + 1], seq[j + 1]) = -1
  /\ ret' = "False"
  /\ UNCHANGED <<target, seq, i, j, state>>
  /\ AutFrame

\* a pass of the loop that consumes one position of both
AutAdvance ==
  /\ ret = "running"
  /\ LoopCond(target, seq, i, j)
  /\ Body(state, target[i + 1], seq[j + 1]) # -1
  /\ state' = Body(state, target[i + 1], seq[j + 1])
  /\ i' = i + 1 /\ j' = j + 1
  /\ UNCHANGED <<target, seq, ret>>
  /\ AutFrame

\* the loop ends: return True
AutAccept ==
  /\ ret = "running"
  /\ ~LoopCond(target, seq, i, j)
  /\ ret' = "True"
  /\ UNCHANGED <<target, seq, i, j, state>>
  /\ AutFrame

NextAut == AutReject \/ AutAdvance \/ AutAccept

SpecAut == InitAut /\ [][NextAut]_vars

AutDone == ret \in {"True", "False"}

\* the candidate has a gap at every reference column outside a non-empty
\* block of columns, where it equals the reference
ColumnAligned(t, s) ==
  /\ Len(s) = Len(t)
  /\ \E a \in 0..Len(t) : \E b \in (a + 1)..Len(t) :
       \A k \in 1..Len(t) :
         IF a < k /\ k <= b THEN s[k] = t[k] ELSE s[k] = "-"

\* within the scanned columns a gap stands between two non-gap characters
GapInsideCore(t, s) ==
  \E p, q, r \in 1..Len(s) :
    /\ p < q /\ q < r /\ r <= Len(t)
    /\ s[p] # "-" /\ s[q] = "-" /\ s[r] # "-"

\* C2 (as stated): for reference "ABCDE" the candidate "--BCD--" is
\* accepted and the candidate "A-C-E" is rejected.
C2_AcceptsPaddedCore ==
  (AutDone /\ target = ABCDE) =>
    /\ (seq = <<"-", "-", "B", "C", "D", "-", "-">> => ret = "True")
    /\ (seq = <<"A", "-", "C", "-", "E">> => ret = "False")

\* C2 (amended): a candidate whose leading gaps, exact core and trailing gaps
\* occupy the reference's own columns is accepted ("-BCD-" for "ABCDE"); a
\* candidate with a gap between two non-gap characters of the scanned columns
\* is rejected ("A-C-E"); "--BCD--" is rejected for "ABCDE".
C2_AcceptsColumnAligned ==
  AutDone =>
    /\ (ColumnAligned(target, seq) => ret = "True")
    /\ (GapInsideCore(target, seq) => ret = "False")
    /\ (target = ABCDE /\ seq = <<"-", "B", "C", "D", "-">> => ret = "True")
    /\ (target = ABCDE /\ seq = <<"A", "-", "C", "-", "E">> => ret = "False")
    /\ (target = ABCDE /\ seq = <<"-", "-", "B", "C", "D", "-", "-">>
          => ret = "False")

C2_Witness ==
  /\ ret = "True" /\ target = ABCDE /\ seq = <<"-", "B", "C", "D", "-">>
  /\ i = 5 /\ state = 2

\* C3: a candidate that contains a lowercase letter at any position is
\* rejected.
C3_LowercaseRejected ==
  (AutDone /\ \E k \in 1..Len(seq) : islower(seq[k])) => ret = "False"

\* C4: the automaton accepts only if the scan has exhausted the whole
\* reference length.
C4_AcceptExhaustsReference == ret = "True" => i = Len(target)

----------------------------------------------------------------------------
(* Gap masking: align_complex._repl and the two re.sub calls               *)

RowAlphabet == {"-", "X", "Y"}

NamedRows ==
  { <<"-", "-", "-", "X", "Y", "Z", "-", "-", "-">>,
    <<"X", "Y", "-", "-", "Z">> }

MaskInputs == TextsUpTo(RowAlphabet, MaxRowLen) \cup NamedRows

\* the greedy match of [-]+ at position k: the number of characters matched
RECURSIVE MatchGaps(_, _)
MatchGaps(row, k) ==
  IF k <= Len(row) /\ row[k] = "-" THEN 1 + MatchGaps(row, k + 1) ELSE 0

\* re.sub("^[-]+", _repl, row)
ReplLeading(row) ==
  [k \in 1..Len(row) |-> IF k <= MatchGaps(row, 1) THEN "*" ELSE row[k]]

\* the leftmost position from k on where [-]+$ matches, 0 if there is none
RECURSIVE SearchTrailing(_, _)
SearchTrailing(row, k) ==
  IF k > Len(row) THEN 0
  ELSE IF MatchGaps(row, k) >= 1 /\ k + MatchGaps(row, k) - 1 = Len(row) THEN k
  ELSE SearchTrailing(row, k + 1)

\* re.sub("[-]+$", _repl, row)
ReplTrailing(row) ==
  LET p == SearchTrailing(row, 1)
  IN [k \in 1..Len(row) |-> IF p # 0 /\ k >= p THEN "*" ELSE row[k]]

\* every gap masked, as re.sub("[-]+", _repl, row) would
GapMaskEveryGap(row) ==
  [k \in 1..Len(row) |-> IF row[k] = "-" THEN "*" ELSE row[k]]

\* hit_seq_at_i after the two substitutions
GapMask(row) == ReplTrailing(ReplLeading(row))

InitMask ==
  /\ mrow \in MaskInputs /\ mout = << >> /\ mpc = "selected"
  /\ AutIdle /\ IdxIdle /\ LoadIdle /\ TaskIdle /\ DrvIdle

ApplyMask ==
  /\ mpc = "selected"
  /\ mout' = GapMask(mrow)
  /\ mpc' = "masked"
  /\ UNCHANGED <<mrow, autVars, idxVars, loadVars, taskVars, drvVars>>

NextMask == ApplyMask

SpecMask == InitMask /\ [][NextMask]_vars

\* position k lies in the run of gaps that starts the row / ends the row
InLeadingGaps(row, k) == \A m \in 1..k : row[m] = "-"
InTrailingGaps(row, k) == \A m \in k..Len(row) : row[m] = "-"

\* C7: masking replaces exactly the run of '-' at the very start and the run
\* of '-' at the very end by as many '*', and leaves every other character
\* (internal gaps included) and the length unchanged.
C7_MaskOnlyEnds ==
  mpc = "masked" =>
    /\ Len(mout) = Len(mrow)
    /\ \A k \in 1..Len(mrow) :
         mout[k] = IF InLeadingGaps(mrow, k) \/ InTrailingGaps(mrow, k)
                   THEN "*" ELSE mrow[k]
    /\ (mrow = <<"-", "-", "-", "X", "Y", "Z", "-", "-", "-">>
          => mout = <<"*", "*", "*", "X", "Y", "Z", "*", "*", "*">>)
    /\ (mrow = <<"X", "Y", "-", "-", "Z">> => mout = mrow)

C7_Witness ==
  /\ mpc = "masked"
  /\ mrow = <<"-", "-", "-", "X", "Y", "Z", "-", "-", "-">>
  /\ mout = <<"*", "*", "*", "X", "Y", "Z", "*", "*", "*">>

----------------------------------------------------------------------------
(* Identifiers                                                             *)

\* A composite identifier is the pair <<pid, chain>>; chain "" stands for an
\* identifier without a chain.
decompose_pid(id) == id

\* f"{pid}_{chain}" if chain else pid
compose(pid, chain) == <<pid, chain>>

H1A == <<"H1", "A">>
H1B == <<"H1", "B">>
H2A == <<"H2", "A">>

HitIds == {H1A, H1B, H2A}
BaseIds == {"H1", "H2"}

----------------------------------------------------------------------------
(* Index store: read_mapping_idx, read_chain_idx, read_attrs_idx and the   *)
(* loading loop of align_complex_main                                      *)

\* An index file: exists is os.path.exists(path), lines the stripped,
\* non-empty lines split into fields.
NoFile == [exists |-> FALSE, lines |-> << >>]
File(ls) == [exists |-> TRUE, lines |-> ls]

\* mapping.idx lines "canonical alias"
MappingLines == {<<H1A, H1A>>, <<H1A, H2A>>, <<H2A, H1A>>, <<H1B, H2A>>}
\* chain.idx lines "base_id chain1 chain2 ..."
ChainLines == {<<"H1", <<"A">>>>, <<"H1", <<"A", "B">>>>, <<"H2", << >>>>}
\* attr.idx lines "base_id json"; BadJson is text json.loads raises on
BadJson == "{"
AttrLines ==
  {<<"H1", "{w:1}">>, <<"H1", "{w:2}">>, <<"H1", BadJson>>, <<"H2", "{w:1}">>}

FilesOf(lineSet) == {NoFile} \cup {File(ls) : ls \in TextsUpTo(lineSet, MaxLines)}

\* k, v = line.split(); mapping_dict[v] = k
MappingLine(d, line) == Put(d, line[2], line[1])

\* k, *v = line.split(); chain_dict[k] = v
ChainLine(d, line) == Put(d, line[1], line[2])

\* try: attr_dict[k] = json.loads(" ".join(v)) / except: pass
AttrLine(d, line) == IF line[2] = BadJson THEN d ELSE Put(d, line[1], line[2])

RECURSIVE ReadLines(_, _, _, _)
ReadLines(kind, d, ls, k) ==
  IF k > Len(ls) THEN d
  ELSE LET d1 == CASE kind = "mapping" -> MappingLine(d, ls[k])
                   [] kind = "chain" -> ChainLine(d, ls[k])
                   [] kind = "attr" -> AttrLine(d, ls[k])
       IN ReadLines(kind, d1, ls, k + 1)

\* read_mapping_idx(data_uri, mapping_dict)
read_mapping_idx(file, d) ==
  IF file.exists THEN ReadLines("mapping", d, file.lines, 1) ELSE d

\* read_chain_idx(data_uri, chain_dict)
read_chain_idx(file, d) ==
  IF file.exists THEN ReadLines("chain", d, file.lines, 1) ELSE d

\* read_attrs_idx(data_uri, attr_dict)
read_attrs_idx(file, d) ==
  IF file.exists THEN ReadLines("attr", d, file.lines, 1) ELSE d

\* db_mapping_dict[v].append(k) for k, v in db_mapping_idx.items(); the list
\* of aliases is read only through set() (align_a3m), it is kept as a set
BuildMappingDict(idx) ==
  [v \in {idx[k] : k \in DOMAIN idx} |-> {k \in DOMAIN idx : idx[k] = v}]

\* pdb_id = mapping_idx.get(pdb_id, pdb_id), followed a second time
ResolveTwice(mapping, id) == Get(mapping, Get(mapping, id, id), Get(mapping, id, id))

\* read_a3m: pdb_id = mapping_idx.get(pdb_id, pdb_id)
ResolvePid(mapping, id) == Get(mapping, id, id)

InitLoad ==
  /\ db_mapping_idx = EmptyDict /\ db_chain_idx = EmptyDict
  /\ db_attr_idx = EmptyDict /\ db_mapping_dict = EmptyDict
  /\ target_mapping_idx = EmptyDict
  /\ lpc = "mapping" /\ loc_n = 0 /\ any_file = FALSE
  /\ read_kind = "none" /\ read_file = NoFile /\ read_prev = EmptyDict
  /\ res_id = << >> /\ res_out = << >>
  /\ AutIdle /\ MaskIdle /\ TaskIdle /\ DrvIdle

LoadFrame == UNCHANGED <<autVars, maskVars, taskVars, drvVars>>

\* for db_uri in args.db_uri: db_mapping_idx = read_mapping_idx(...)
LoadReadMapping ==
  /\ lpc = "mapping" /\ loc_n < MaxLocs
  /\ \E file \in FilesOf(MappingLines) :
       /\ db_mapping_idx' = read_mapping_idx(file, db_mapping_idx)
       /\ read_file' = file
       /\ any_file' = (any_file \/ file.exists)
  /\ read_kind' = "mapping" /\ read_prev' = db_mapping_idx
  /\ lpc' = "chain"
  /\ UNCHANGED <<db_chain_idx, db_attr_idx, db_mapping_dict,
                 target_mapping_idx, loc_n, res_id, res_out>>
  /\ LoadFrame

\* db_chain_idx = read_chain_idx(db_uri, db_chain_idx)
LoadReadChain ==
  /\ lpc = "chain"
  /\ \E file \in FilesOf(ChainLines) :
       /\ db_chain_idx' = read_chain_idx(file, db_chain_idx)
       /\ read_file' = file
       /\ any_file' = (any_file \/ file.exists)
  /\ read_kind' = "chain" /\ read_prev' = db_chain_idx
  /\ lpc' = "attr"
  /\ UNCHANGED <<db_mapping_idx, db_attr_idx, db_mapping_dict,
                 target_mapping_idx, loc_n, res_id, res_out>>
  /\ LoadFrame

\* db_attr_idx = read_attrs_idx(db_uri, db_attr_idx)
LoadReadAttrs ==
  /\ lpc = "attr"
  /\ \E file \in FilesOf(AttrLines) :
       /\ db_attr_idx' = read_attrs_idx(file, db_attr_idx)
       /\ read_file' = file
       /\ any_file' = (any_file \/ file.exists)
  /\ read_kind' = "attr" /\ read_prev' = db_attr_idx
  /\ lpc' = "mapping" /\ loc_n' = loc_n + 1
  /\ UNCHANGED <<db_mapping_idx, db_chain_idx, db_mapping_dict,
                 target_mapping_idx, res_id, res_out>>
  /\ LoadFrame

\* the loop over args.db_uri is over: build db_mapping_dict
LoadBuildDict ==
  /\ lpc = "mapping"
  /\ db_mapping_dict' = BuildMappingDict(db_mapping_idx)
  /\ lpc' = "target"
  /\ UNCHANGED <<db_mapping_idx, db_chain_idx, db_attr_idx,
                 target_mapping_idx, loc_n, any_file, read_kind, read_file,
                 read_prev, res_id, res_out>>
  /\ LoadFrame

\* target_mapping_idx = read_mapping_idx(target_uri)
LoadReadTargetMapping ==
  /\ lpc = "target"
  /\ \E file \in FilesOf(MappingLines) :
       /\ target_mapping_idx' = read_mapping_idx(file, EmptyDict)
       /\ read_file' = file
  /\ read_kind' = "target_mapping" /\ read_prev' = EmptyDict
  /\ lpc' = "resolve"
  /\ UNCHANGED <<idxVars, loc_n, any_file, res_id, res_out>>
  /\ LoadFrame

\* read_a3m resolves the identifier of a target chain
LoadResolve ==
  /\ lpc = "resolve"
  /\ \E id \in HitIds :
       /\ res_id' = id
       /\ res_out' = ResolvePid(target_mapping_idx, id)
  /\ lpc' = "resolved"
  /\ UNCHANGED <<idxVars, target_mapping_idx, loc_n, any_file, read_kind,
                 read_file, read_prev>>
  /\ LoadFrame

NextLoad ==
  \/ LoadReadMapping \/ LoadReadChain \/ LoadReadAttrs \/ LoadBuildDict
  \/ LoadReadTargetMapping \/ LoadResolve

SpecLoad == InitLoad /\ [][NextLoad]_vars

\* the largest element of a non-empty set of numbers
Max(S) == CHOOSE x \in S : \A y \in S : y <= x

\* line defines key k in an index of the given kind
Defines(kind, line, k) ==
  CASE kind = "mapping" -> line[2] = k
    [] kind = "chain" -> line[1] = k
    [] kind = "attr" -> line[1] = k /\ line[2] # BadJson

ValueOf(kind, line) == IF kind = "mapping" THEN line[1] ELSE line[2]

DefPos(kind, ls, k) == {n \in 1..Len(ls) : Defines(kind, ls[n], k)}

KeysOf(kind) == IF kind = "mapping" THEN HitIds ELSE BaseIds

\* cur is prev overwritten by the last definition of each key in file
MergedFrom(kind, prev, file, cur) ==
  IF ~file.exists THEN cur = prev
  ELSE /\ DOMAIN cur =
            DOMAIN prev \cup {k \in KeysOf(kind) : DefPos(kind, file.lines, k) # {}}
       /\ \A k \in DOMAIN cur :
            cur[k] = IF DefPos(kind, file.lines, k) # {}
                     THEN ValueOf(kind, file.lines[Max(DefPos(kind, file.lines, k))])
                     ELSE prev[k]

\* C9: each index read leaves one mapping in which every key holds the value
\* of the last line of the last location that defines it, keys defined only
\* earlier are kept, and an absent file contributes nothing (all absent
\* gives the empty mappings).
C9_LaterLocationsOverwrite ==
  /\ (lpc # "idle" /\ read_kind = "mapping")
       => MergedFrom("mapping", read_prev, read_file, db_mapping_idx)
  /\ (lpc # "idle" /\ read_kind = "chain")
       => MergedFrom("chain", read_prev, read_file, db_chain_idx)
  /\ (lpc # "idle" /\ read_kind = "attr")
       => MergedFrom("attr", read_prev, read_file, db_attr_idx)
  /\ (lpc # "idle" /\ read_kind = "target_mapping")
       => MergedFrom("mapping", read_prev, read_file, target_mapping_idx)
  /\ (lpc # "idle" /\ ~any_file)
       => /\ db_mapping_idx = EmptyDict /\ db_chain_idx = EmptyDict
          /\ db_attr_idx = EmptyDict

\* a second location overwrote one key of the aliasing index and kept another
C9_Witness ==
  /\ lpc = "chain" /\ loc_n = 1 /\ read_kind = "mapping" /\ read_file.exists
  /\ \E k1, k2 \in DOMAIN read_prev :
       /\ db_mapping_idx[k1] # read_prev[k1]
       /\ DefPos("mapping", read_file.lines, k2) = {}
       /\ db_mapping_idx[k2] = read_prev[k2]

IsCanonical(ls, id) == \E n \in 1..Len(ls) : ls[n][1] = id
IsAlias(ls, id) == \E n \in 1..Len(ls) : ls[n][2] = id

Resolved == lpc = "resolved" /\ read_kind = "target_mapping"

\* C8 (as stated): resolution returns a canonical id unchanged, returns the
\* canonical id of a known alias, and returns an unknown id unchanged, also
\* when an id is the canonical of one line and the alias of another.
C8_ResolveThreeCases ==
  Resolved =>
    LET ls == read_file.lines
    IN /\ IsCanonical(ls, res_id) => res_out = res_id
       /\ (IsAlias(ls, res_id) /\ ~IsCanonical(ls, res_id))
            => \E n \in 1..Len(ls) : ls[n][2] = res_id /\ res_out = ls[n][1]
       /\ (~IsAlias(ls, res_id) /\ ~IsCanonical(ls, res_id))
            => res_out = res_id

\* C8 (amended): resolution returns the canonical id of the last line that
\* names the id as its alias, and returns the id unchanged when no line names
\* it as an alias; a canonical id that no line names as an alias is therefore
\* returned unchanged, one that is the alias of another line is not.
C8_ResolveOneHop ==
  Resolved =>
    LET ls == read_file.lines
        at == DefPos("mapping", ls, res_id)
    IN IF at # {} THEN res_out = ls[Max(at)][1] ELSE res_out = res_id

\* an id that is the canonical of one line and the alias of another resolves
\* to the other line's canonical
C8_Witness ==
  /\ Resolved /\ res_id = H1A /\ res_out = H2A
  /\ IsCanonical(read_file.lines, H1A) /\ IsAlias(read_file.lines, H1A)

----------------------------------------------------------------------------
(* The parallel driver (align_complex_main), align_complex and align_a3m   *)

Padding == 100

\* target_chain_idx = read_chain_idx(target_uri): the tasks, in imap order
target_chain_idx ==
  << <<"T1", <<"A", "B">>>>, <<"T2", <<"A">>>>, <<"T3", <<"B">>>> >>

\* target_mapping_idx = read_mapping_idx(target_uri): T2_A is an alias of the
\* canonical T2_X, T3_B is its own canonical, T1's chains are not listed
TargetMappingIdx ==
  [x \in {<<"T2", "A">>, <<"T3", "B">>} |->
     IF x = <<"T2", "A">> THEN <<"T2", "X">> ELSE x]

\* the length of the query row of the alignment block of a target chain
QueryLen(pid) ==
  CASE pid = <<"T1", "A">> -> 5
    [] pid = <<"T1", "B">> -> 4
    [] pid = <<"T2", "X">> -> 3
    [] pid = <<"T3", "B">> -> 2

Query(pid) == [k \in 1..QueryLen(pid) |-> "Q"]

\* the hit rows an alignment block of query length n may hold: a row with a
\* leading gap, a row with an internal and a trailing gap, and a row with a
\* lowercase insertion (one character longer than the query)
RowSeq(n, v) ==
  CASE v = 1 -> [k \in 1..n |-> IF k = 1 THEN "-" ELSE "X"]
    [] v = 2 -> [k \in 1..n |-> IF k = n \/ (k = 2 /\ n >= 4) THEN "-" ELSE "Y"]
    [] v = 3 -> [k \in 1..(n + 1) |-> IF k = 1 THEN "-" ELSE IF k = 2 THEN "a" ELSE "Z"]

RowKinds == {<<H1A, 1>>, <<H1B, 2>>, <<H2A, 3>>}

HitRow(n, kind) == [id |-> kind[1], seq |-> RowSeq(n, kind[2])]

\* the alignment blocks a path may hold; sequences[0] is the query
NoA3m == [exists |-> FALSE, query |-> << >>, rows |-> << >>]
A3mFiles(pid) ==
  {NoA3m} \cup
  { [exists |-> TRUE, query |-> Query(pid),
     rows |-> [k \in DOMAIN ks |-> HitRow(QueryLen(pid), ks[k])]] :
      ks \in TextsUpTo(RowKinds, MaxRows) }

\* the indices the parent process may have loaded
MapOpts(id) ==
  CASE id = H1A -> {H1A}
    [] id = H1B -> {H1B, H1A}
    [] id = H2A -> {H2A, H1A}

DbMappingIdxs ==
  UNION { {m \in [D -> HitIds] : \A k \in D : m[k] \in MapOpts(k)} :
            D \in SUBSET HitIds }

DbChainIdxs ==
  { [x \in {"H2"} |-> <<"A">>],
    [x \in {"H1"} |-> <<"A", "B">>],
    [x \in BaseIds |-> IF x = "H1" THEN <<"A">> ELSE <<"A">>],
    [x \in BaseIds |-> IF x = "H1" THEN <<"A", "B">> ELSE <<"A">>] }

DbAttrIdxs ==
  { EmptyDict, [x \in {"H2"} |-> "{w:1}"], [x \in BaseIds |-> "{w:1}"] }

\* the orders in which a set may be iterated
Orders(S) ==
  {f \in [1..Cardinality(S) -> S] : \A a, b \in DOMAIN f : f[a] = f[b] => a = b}

\* the position of key k in an insertion-ordered dict, 0 if absent
RECURSIVE KeyPos(_, _, _)
KeyPos(od, k, n) ==
  IF n > Len(od) THEN 0 ELSE IF od[n][1] = k THEN n ELSE KeyPos(od, k, n + 1)

\* align_chain_dict[pid].append(chain) on a defaultdict(list)
AppendChain(od, pid, chain) ==
  LET n == KeyPos(od, pid, 1)
  IN IF n = 0 THEN Append(od, <<pid, <<chain>>>>)
     ELSE [od EXCEPT ![n] = <<pid, Append(od[n][2], chain)>>]

\* for pdb_id in pdb_id_list: align_chain_dict[pid].append(chain)
RECURSIVE CreditAll(_, _, _)
CreditAll(od, order, n) ==
  IF n > Len(order) THEN od
  ELSE LET pc_ == decompose_pid(order[n])
       IN CreditAll(AppendChain(od, pc_[1], pc_[2]), order, n + 1)

\* mapping_dict after mapping_dict[pdb_id]: a defaultdict inserts a missing key
AfterGetItem(mapping_dict, pdb_id) ==
  IF pdb_id \in DOMAIN mapping_dict THEN mapping_dict
  ELSE Put(mapping_dict, pdb_id, {})

\* mapping_dict after mapping_dict.get(pdb_id, []): get inserts nothing, also
\* in a defaultdict
AfterGet(mapping_dict, pdb_id) == mapping_dict

\* mapping_dict after the lookups align_a3m makes for the rows from k on
RECURSIVE MappingDictAfter(_, _, _)
MappingDictAfter(rows, k, mapping_dict) ==
  IF k > Len(rows) THEN mapping_dict
  ELSE LET pc_ == decompose_pid(rows[k].id)
       IN MappingDictAfter(rows, k + 1,
                           AfterGet(mapping_dict, compose(pc_[1], pc_[2])))

\* pdb_id_list = set([pdb_id]) | set(mapping_dict.get(pdb_id, []))
PdbIdList(mapping_dict, pdb_id) == {pdb_id} \cup Get(mapping_dict, pdb_id, {})

\* align_a3m from row k on: the set of (align_data_dict, align_chain_dict)
\* it may return, one for each iteration order of the sets pdb_id_list
RECURSIVE AlignRows(_, _, _, _, _, _)
AlignRows(rows, k, mapping_dict, data, acc, target_chain) ==
  IF k > Len(rows) THEN {<<data, acc>>}
  ELSE LET pc_ == decompose_pid(rows[k].id)
           pdb_id == compose(pc_[1], pc_[2])
           data1 == Put(data, pdb_id,
                        [seq |-> rows[k].seq, target_chain |-> target_chain])
       IN UNION { AlignRows(rows, k + 1, mapping_dict, data1,
                            CreditAll(acc, order, 1), target_chain) :
                    order \in Orders(PdbIdList(mapping_dict, pdb_id)) }

\* align_a3m(a3m_data, mapping_dict, align_dict, target_chain=chain)
align_a3m(a3m_data, mapping_dict, data, acc, target_chain) ==
  AlignRows(a3m_data.rows, 1, mapping_dict, data, acc, target_chain)

\* align_complex._is_aligned
is_aligned(pid, chain_list) ==
  IF pid \in DOMAIN db_attr_idx
  THEN pid \in DOMAIN db_chain_idx /\ Len(db_chain_idx[pid]) = Len(chain_list)
  ELSE FALSE

\* {k: v for k, v in a3m_dict.items() if _is_aligned(k, v)}
RECURSIVE FilterAligned(_, _)
FilterAligned(od, n) ==
  IF n > Len(od) THEN << >>
  ELSE IF is_aligned(od[n][1], od[n][2])
       THEN <<od[n]>> \o FilterAligned(od, n + 1)
       ELSE FilterAligned(od, n + 1)

\* n += len(seq), the padding left out
NextStartNoPadding(n, len) == n + len

\* n += len(seq) + 100
NextStart(n, len) == n + len + Padding

\* the target row and the domain spans, from chain i on
RECURSIVE TargetFrom(_, _, _)
TargetFrom(a3ms, k, n) ==
  IF k > Len(a3ms) THEN [seq |-> << >>, domains |-> << >>]
  ELSE LET q == a3ms[k].query
           rest == TargetFrom(a3ms, k + 1, NextStart(n, Len(q)))
       IN [seq |-> q \o rest.seq,
           domains |-> <<<<n, n + Len(q) - 1>>>> \o rest.domains]

\* the inner loop over chain_list for one target chain, from entry n on:
\* the segment, or ok = FALSE when an assertion fails
RECURSIVE Segment(_, _, _, _, _, _)
Segment(pid, chain_list, n, target_chain, data, default) ==
  IF n > Len(chain_list) THEN [ok |-> TRUE, seq |-> default]
  ELSE LET pdb_id == compose(pid, chain_list[n])
       IN IF pdb_id \notin DOMAIN db_mapping_idx THEN [ok |-> FALSE, seq |-> << >>]
          ELSE IF pdb_id \notin DOMAIN data
                  /\ db_mapping_idx[pdb_id] \notin DOMAIN data
               THEN [ok |-> FALSE, seq |-> << >>]
          ELSE LET rec == IF pdb_id \in DOMAIN data THEN data[pdb_id]
                          ELSE data[db_mapping_idx[pdb_id]]
               IN IF rec.target_chain = target_chain
                  THEN [ok |-> TRUE, seq |-> GapMask(rec.seq)]
                  ELSE Segment(pid, chain_list, n + 1, target_chain, data, default)

\* new_hit_seq of one hit, from target chain k on
RECURSIVE HitSeq(_, _, _, _, _, _)
HitSeq(pid, chain_list, chains, a3ms, k, data) ==
  IF k > Len(chains) THEN [ok |-> TRUE, seq |-> << >>]
  ELSE LET seg == Segment(pid, chain_list, 1, chains[k], data,
                          Stars(Len(a3ms[k].query)))
           rest == HitSeq(pid, chain_list, chains, a3ms, k + 1, data)
       IN [ok |-> seg.ok /\ rest.ok, seq |-> seg.seq \o rest.seq]

\* hit_desc: the hit's id, the first character of each chain and the attributes
HitDesc(pid, chain_list) ==
  [pid |-> pid, chains |-> chain_list, attrs |-> Get(db_attr_idx, pid, "")]

\* the header and row pairs of the hits, from entry n of new_a3m_dict on
RECURSIVE HitsFrom(_, _, _, _, _)
HitsFrom(od, n, chains, a3ms, data) ==
  IF n > Len(od) THEN [ok |-> TRUE, list |-> << >>]
  ELSE LET hit == HitSeq(od[n][1], od[n][2], chains, a3ms, 1, data)
           rest == HitsFrom(od, n + 1, chains, a3ms, data)
       IN [ok |-> hit.ok /\ rest.ok,
           list |-> <<HitDesc(od[n][1], od[n][2]), hit.seq>> \o rest.list]

CurItem == target_chain_idx[task]
target_pid == CurItem[1]
target_chain_list == CurItem[2]

InitAlign ==
  /\ db_mapping_idx \in DbMappingIdxs
  /\ db_chain_idx \in DbChainIdxs
  /\ db_attr_idx \in DbAttrIdxs
  /\ db_mapping_dict = BuildMappingDict(db_mapping_idx)
  /\ target_mapping_idx = TargetMappingIdx
  /\ lpc = "loaded" /\ loc_n = 0 /\ any_file = FALSE
  /\ read_kind = "none" /\ read_file = NoFile /\ read_prev = EmptyDict
  /\ res_id = << >> /\ res_out = << >>
  /\ dpc = "running" /\ task = 0 /\ written = << >> /\ pending = << >>
  /\ TaskIdle /\ AutIdle /\ MaskIdle

AlignFrame == UNCHANGED <<autVars, maskVars, idxVars, loadVars>>

\* --chunksize, by default
ChunkSize == 2

\* the items of one chunk have all been handed out: imap cuts
\* target_chain_idx.items() into chunks of ChunkSize items, the last one shorter
ChunkDone == task % ChunkSize = 0 \/ task = Len(target_chain_idx)

\* a worker hands the next item of its chunk to align_complex; the chunks are
\* taken in order, one after the other
StartTask ==
  /\ dpc = "running" /\ pc = "idle" /\ task < Len(target_chain_idx)
  /\ ChunkDone => pending = << >>
  /\ task' = task + 1
  /\ pc' = "read"
  /\ UNCHANGED <<dpc, written, pending, a3m_list, align_data_dict, a3m_dict,
                 new_a3m_dict, new_a3m_list>>
  /\ AlignFrame

\* the chain read next, and the identifier read_a3m opens
CurChain == target_chain_list[Len(a3m_list) + 1]
CurPath == ResolvePid(target_mapping_idx, compose(target_pid, CurChain))

\* one pass of the loop over target_chain_list: read_a3m and align_a3m
LoadChain ==
  /\ pc = "read" /\ Len(a3m_list) < Len(target_chain_list)
  /\ \E a3m_data \in A3mFiles(CurPath) \ {NoA3m} :
       /\ \E r \in align_a3m(a3m_data, db_mapping_dict, align_data_dict,
                             a3m_dict, CurChain) :
            /\ align_data_dict' = r[1]
            /\ a3m_dict' = r[2]
       /\ db_mapping_dict' = MappingDictAfter(a3m_data.rows, 1, db_mapping_dict)
       /\ a3m_list' = Append(a3m_list, a3m_data)
  /\ UNCHANGED <<pc, new_a3m_dict, new_a3m_list, drvVars>>
  /\ UNCHANGED <<db_mapping_idx, db_chain_idx, db_attr_idx, target_mapping_idx>>
  /\ UNCHANGED <<autVars, maskVars, loadVars>>

\* read_a3m raises FileNotFoundError: the task ends with the exception
LoadChainMissing ==
  /\ pc = "read" /\ Len(a3m_list) < Len(target_chain_list)
  /\ NoA3m \in A3mFiles(CurPath)
  /\ pc' = "failed"
  /\ UNCHANGED <<a3m_list, align_data_dict, a3m_dict, new_a3m_dict,
                 new_a3m_list, drvVars>>
  /\ AlignFrame

Hits == HitsFrom(FilterAligned(a3m_dict, 1), 1, target_chain_list, a3m_list,
                 align_data_dict)
Target == TargetFrom(a3m_list, 1, 1)

\* the filter, the target pair and the hit pairs; align_complex returns
Assemble ==
  /\ pc = "read" /\ Len(a3m_list) = Len(target_chain_list)
  /\ Hits.ok
  /\ new_a3m_dict' = FilterAligned(a3m_dict, 1)
  /\ new_a3m_list' =
       <<[pid |-> target_pid, domains |-> Target.domains], Target.seq>>
         \o Hits.list
  /\ pc' = "returned"
  /\ UNCHANGED <<a3m_list, align_data_dict, a3m_dict, drvVars>>
  /\ AlignFrame

\* an assert of the hit loop fails: the task ends with AssertionError
AssembleAssertFails ==
  /\ pc = "read" /\ Len(a3m_list) = Len(target_chain_list)
  /\ ~Hits.ok
  /\ new_a3m_dict' = FilterAligned(a3m_dict, 1)
  /\ pc' = "failed"
  /\ UNCHANGED <<a3m_list, align_data_dict, a3m_dict, new_a3m_list, drvVars>>
  /\ AlignFrame

\* the worker keeps the value align_complex returned in the result list of the
\* chunk; the task's structures are dropped
CollectResult ==
  /\ dpc = "running" /\ pc = "returned"
  /\ pending' = Append(pending, target_pid)
  /\ pc' = "idle"
  /\ a3m_list' = << >> /\ align_data_dict' = EmptyDict /\ a3m_dict' = << >>
  /\ new_a3m_dict' = << >> /\ new_a3m_list' = << >>
  /\ UNCHANGED <<dpc, task, written>>
  /\ AlignFrame

\* imap yields the results of a finished chunk one by one, and the parent
\* writes <pid>.a3m and <pid>.pkl of each
WriteOutput ==
  /\ dpc = "running" /\ pc = "idle" /\ ChunkDone /\ pending # << >>
  /\ written' = Append(written, Head(pending))
  /\ pending' = Tail(pending)
  /\ UNCHANGED <<dpc, task, taskVars>>
  /\ AlignFrame

\* the exception of a task is the result of its whole chunk: imap re-raises it
\* in the parent, which leaves the loop, and the pool is terminated
DriverRaise ==
  /\ dpc = "running" /\ pc = "failed"
  /\ dpc' = "crashed"
  /\ UNCHANGED <<task, written, pending, taskVars>>
  /\ AlignFrame

\* every item has been written
DriverDone ==
  /\ dpc = "running" /\ pc = "idle" /\ task = Len(target_chain_idx)
  /\ pending = << >>
  /\ dpc' = "done"
  /\ UNCHANGED <<task, written, pending, taskVars>>
  /\ AlignFrame

Next ==
  \/ StartTask \/ LoadChain \/ LoadChainMissing \/ Assemble
  \/ AssembleAssertFails \/ CollectResult \/ WriteOutput \/ DriverRaise
  \/ DriverDone

Spec == InitAlign /\ [][Next]_vars

RECURSIVE SumLen(_, _)
SumLen(a3ms, k) ==
  IF k > Len(a3ms) THEN 0 ELSE Len(a3ms[k].query) + SumLen(a3ms, k + 1)

Returned == pc = "returned"
NChains == Len(target_chain_list)
TargetRow == new_a3m_list[2]
TargetDomains == new_a3m_list[1].domains

\* the number of header and row pairs, and the hit pairs among them
NPairs == Len(new_a3m_list) \div 2
HitPairs == 2..NPairs
PairPid(n) == new_a3m_list[2 * n - 1].pid
PairRow(n) == new_a3m_list[2 * n]
Emitted(h) == \E n \in HitPairs : PairPid(n) = h

\* the coverage count of base id h, 0 without an entry
Coverage(h) ==
  LET n == KeyPos(a3m_dict, h, 1) IN IF n = 0 THEN 0 ELSE Len(a3m_dict[n][2])
Credited(h) == KeyPos(a3m_dict, h, 1) # 0

\* h has a coverage entry and an attribute entry, and its coverage count is
\* its membership count
Complete(h) ==
  /\ Credited(h) /\ h \in DOMAIN db_attr_idx /\ h \in DOMAIN db_chain_idx
  /\ Len(db_chain_idx[h]) = Coverage(h)

\* the chains of hit h that some loaded block holds a row for
RowChains(h) ==
  {c \in {"A", "B"} :
     \E b \in 1..Len(a3m_list) : \E r \in 1..Len(a3m_list[b].rows) :
       a3m_list[b].rows[r].id = <<h, c>>}
Required(h) == {db_chain_idx[h][n] : n \in 1..Len(db_chain_idx[h])}

\* C5 (as stated): the concatenated target sequence has the length of the
\* per-chain query rows together plus 100 * (n - 1) padding positions.
C5_TargetLengthWithPadding ==
  Returned => Len(TargetRow) = SumLen(a3m_list, 1) + Padding * (NChains - 1)

\* C5 (amended): the target row is the per-chain query rows joined in chain
\* order with nothing between them, so its length is the sum of their
\* lengths; the 100 padding positions exist only in the domain spans of the
\* header: the first span starts at 1, each span is as long as its chain's
\* query row, each next span starts 101 after the end of the one before, and
\* the last span ends at the sum of the lengths plus 100 * (n - 1).
C5_TargetLengthAndSpans ==
  Returned =>
    /\ Len(TargetRow) = SumLen(a3m_list, 1)
    /\ \A k \in 1..NChains :
         SubSeq(TargetRow, SumLen(a3m_list, 1) - SumLen(a3m_list, k) + 1,
                SumLen(a3m_list, 1) - SumLen(a3m_list, k + 1))
           = a3m_list[k].query
    /\ Len(TargetDomains) = NChains
    /\ TargetDomains[1][1] = 1
    /\ \A k \in 1..NChains :
         TargetDomains[k][2] - TargetDomains[k][1] + 1 = Len(a3m_list[k].query)
    /\ \A k \in 1..(NChains - 1) :
         TargetDomains[k + 1][1] = TargetDomains[k][2] + 1 + Padding
    /\ TargetDomains[NChains][2]
         = SumLen(a3m_list, 1) + Padding * (NChains - 1)

\* the two-chain target T1: a row of 5 + 4 characters, spans 1-5 and 106-109
C5_Witness ==
  /\ Returned /\ target_pid = "T1" /\ NChains = 2
  /\ Len(TargetRow) = 9
  /\ TargetDomains = <<<<1, 5>>, <<106, 109>>>>

\* C1: a hit is emitted iff it has an attribute entry and its coverage count
\* equals the membership count; a hit with rows for all but one of its
\* required chains is excluded and a hit with rows for all of them (and an
\* attribute and membership entry) is included.
C1_CompleteHitsOnly ==
  Returned =>
    \A h \in BaseIds :
      /\ Emitted(h) <=> Complete(h)
      /\ (h \in DOMAIN db_chain_idx
            /\ Cardinality(Required(h) \ RowChains(h)) = 1) => ~Emitted(h)
      /\ (h \in DOMAIN db_chain_idx /\ h \in DOMAIN db_attr_idx
            /\ RowChains(h) # {} /\ Required(h) \subseteq RowChains(h))
           => Emitted(h)

\* all rows of the loaded blocks are as long as their block's query row
NoInsertions ==
  \A b \in 1..Len(a3m_list) : \A r \in 1..Len(a3m_list[b].rows) :
    Len(a3m_list[b].rows[r].seq) = Len(a3m_list[b].query)

\* C6 (as stated): every complete hit appears exactly once, as one pair after
\* the target pair, and its row carries the 100 padding positions between
\* chains: 5 + 100 + 4 for the target [A, B] with query lengths 5 and 4.
C6_HitRowWithPadding ==
  Returned =>
    /\ \A k \in 1..Len(new_a3m_dict) :
         Cardinality({n \in HitPairs : PairPid(n) = new_a3m_dict[k][1]}) = 1
    /\ \A n \in HitPairs :
         NoInsertions =>
           Len(PairRow(n)) = SumLen(a3m_list, 1) + Padding * (NChains - 1)

\* C6 (amended): in the list align_complex returns every complete hit appears
\* exactly once, as one header and row pair after the target pair and in the
\* order of the coverage accumulator, and nothing else follows the target
\* pair; the row has no padding between its per-chain segments, so when no
\* row of the loaded blocks has insertions it is as long as the target row,
\* the sum of the query lengths: 5 + 4 = 9 for H1 on the target [A, B].
C6_HitRowOncePerHit ==
  Returned =>
    /\ Len(new_a3m_list) = 2 + 2 * Len(new_a3m_dict)
    /\ \A k \in 1..Len(new_a3m_dict) : PairPid(k + 1) = new_a3m_dict[k][1]
    /\ \A h \in BaseIds :
         Cardinality({n \in HitPairs : PairPid(n) = h})
           = IF Complete(h) THEN 1 ELSE 0
    /\ \A n \in HitPairs :
         NoInsertions =>
           /\ Len(PairRow(n)) = Len(TargetRow)
           /\ Len(PairRow(n)) = SumLen(a3m_list, 1)

\* T1 with a row of H1_A in the block of A and a row of H1_B in the block
\* of B: H1 is emitted once with a row of 9 characters
C6_Witness ==
  /\ Returned /\ target_pid = "T1"
  /\ Len(a3m_list[1].rows) = 1 /\ a3m_list[1].rows[1].id = H1A
  /\ Len(a3m_list[2].rows) = 1 /\ a3m_list[2].rows[1].id = H1B
  /\ Len(new_a3m_list) = 4 /\ PairPid(2) = "H1"
  /\ PairRow(2) = <<"*", "X", "X", "X", "X", "Y", "-", "Y", "*">>

\* the block read last and the chain it was read for
LastBlock == a3m_list[Len(a3m_list)]
LastChain == target_chain_list[Len(a3m_list)]

\* the identifiers that share the identity of id under the aliasing index:
\* its canonical id and every alias of that canonical id
Identity(id) ==
  LET canon == Get(db_mapping_idx, id, id)
  IN {id, canon} \cup {a \in DOMAIN db_mapping_idx : db_mapping_idx[a] = canon}

\* C10: every non-query row credits the coverage entry of the base id of
\* each identifier that shares the hit's identity under the aliasing index,
\* whether its header names the canonical id or an alias; a block with the
\* query row only credits nothing.
C10_RowCreditsIdentity ==
  (pc = "read" /\ Len(a3m_list) > 0) =>
    /\ \A r \in 1..Len(LastBlock.rows) :
         \A a \in Identity(LastBlock.rows[r].id) :
           /\ Credited(a[1])
           /\ \E n \in 1..Coverage(a[1]) :
                a3m_dict[KeyPos(a3m_dict, a[1], 1)][2][n]
                  = LastBlock.rows[r].id[2]
    /\ (\A b \in 1..Len(a3m_list) : a3m_list[b].rows = << >>)
         => a3m_dict = << >>

\* the (align_data_dict, align_chain_dict) pairs the loop over the loaded
\* blocks may end with, from block k on: one for each iteration order of the
\* alias sets of align_a3m
RECURSIVE RunsFrom(_, _, _, _)
RunsFrom(a3ms, k, data, acc) ==
  IF k > Len(a3ms) THEN {<<data, acc>>}
  ELSE UNION { RunsFrom(a3ms, k + 1, r[1], r[2]) :
                 r \in align_a3m(a3ms[k], db_mapping_dict, data, acc,
                                 target_chain_list[k]) }

\* the hit pairs a run of align_complex on the blocks of a3m_list may return
RerunHits ==
  { HitsFrom(FilterAligned(r[2], 1), 1, target_chain_list, a3m_list, r[1]) :
      r \in RunsFrom(a3m_list, 1, EmptyDict, << >>) }

\* the hit ids and rows of a list of header and row pairs, in list order
HitRowsOf(list) ==
  [n \in 1..(Len(list) \div 2) |-> <<list[2 * n - 1].pid, list[2 * n]>>]

\* C11: a second run of align_complex on the same target, indices and
\* alignment blocks returns the same rows of the same hits in the same order,
\* whatever the iteration order of the alias sets.
C11_RerunSameOutput ==
  Returned =>
    \A o \in RerunHits :
      /\ o.ok
      /\ HitRowsOf(new_a3m_list)
           = <<<<target_pid, new_a3m_list[2]>>>> \o HitRowsOf(o.list)


WrittenPids == {written[n] : n \in 1..Len(written)}

MissingFile == pc = "failed" /\ Len(a3m_list) < Len(target_chain_list)

\* C12: when an alignment file of a complex is missing, nothing is written
\* for that complex and the driver still writes the output of every other
\* complex, those before it and those after it in the chain index.
C12_MissingFileFailsOneTask ==
  (dpc = "crashed" /\ MissingFile) =>
    /\ target_pid \notin WrittenPids
    /\ \A k \in 1..Len(target_chain_idx) :
         k # task => target_chain_idx[k][1] \in WrittenPids


\* the rows of hit h in the block of target chain k: the rows whose id, or an
\* id of the same identity, is a composite id of h
HitRowsIn(h, k) ==
  {a3m_list[k].rows[r].seq : r \in
     {r \in 1..Len(a3m_list[k].rows) :
        \E id \in Identity(a3m_list[k].rows[r].id) : id[1] = h}}

\* the part of an emitted row that stands at target chain k
SegmentAt(row, k) ==
  LET start == SumLen(SubSeq(a3m_list, 1, k - 1), 1)
  IN SubSeq(row, start + 1, start + Len(a3m_list[k].query))

\* C13: for each emitted hit and each target chain, the segment is the
\* masked form of a row of the hit from that chain's block whenever the block
\* holds one, and the all-mask placeholder only when it holds none.
C13_SegmentFromOwnBlock ==
  Returned =>
    \A n \in HitPairs : \A k \in 1..NChains :
      LET rows == HitRowsIn(PairPid(n), k)
          seg == SegmentAt(PairRow(n), k)
      IN IF rows # {}
         THEN seg \in {GapMask(q) : q \in rows}
         ELSE seg = Stars(Len(a3m_list[k].query))


\* C14: no step of a task or of the driver changes the aliasing index, the
\* inverse alias map, the membership index, the attribute index or the
\* target aliasing index: through any sequence of tasks they keep the keys
\* and values they were built with.
C14_IndicesNotWritten ==
  [][/\ db_mapping_idx' = db_mapping_idx
     /\ db_mapping_dict' = db_mapping_dict
     /\ db_chain_idx' = db_chain_idx
     /\ db_attr_idx' = db_attr_idx
     /\ target_mapping_idx' = target_mapping_idx]_vars

\* the third task has returned after two were written, and a block it read
\* holds a row whose id has no aliases in the inverse alias map
C14_Witness ==
  /\ Returned /\ task = 3 /\ Len(written) = 2
  /\ db_mapping_dict # EmptyDict
  /\ \E b \in 1..Len(a3m_list) : \E r \in 1..Len(a3m_list[b].rows) :
       a3m_list[b].rows[r].id \notin DOMAIN db_mapping_dict


AllFilesRead == Len(a3m_list) = Len(target_chain_list)

\* C15: when every alignment file of the target exists, align_complex ends
\* without an assertion failure.
C15_NoAssertionFailure == ~(pc = "failed" /\ AllFilesRead)

====
